---------------------------- MODULE Spec2Model ----------------------------
(***************************************************************************)
(* LifeStream organ-allocation engine: the four relations of the SQLite    *)
(* store (users, organs, organ_requests, matches) and the Express handlers *)
(* of src/src/App.tsx that read and write them.  better-sqlite3 is         *)
(* synchronous and every handler below runs without an await between its   *)
(* statements, so under Node's single-threaded event loop each handler is  *)
(* one atomic step; concurrent callers are interleaved handler by handler. *)
(*                                                                         *)
(* The tables carry the schema of initDb (no UNIQUE, no FOREIGN KEY, no    *)
(* CHECK constraint); the rows at Init are the ones the seed script        *)
(* inserts after it has emptied the tables that initDb created.            *)
(***************************************************************************)
EXTENDS Integers, Sequences, FiniteSets

VARIABLES
    users,           \* rows of table users: [id, blood_group, role]
    organs,          \* rows of table organs
    organ_requests,  \* rows of table organ_requests
    matches,         \* rows of table matches
    seq,             \* sqlite_sequence: last AUTOINCREMENT id of each table
    allocLog,        \* responses sent by POST /admin/matches, oldest first
    suggestResp,     \* last response sent by GET /admin/matches/suggest/:id
    listResp,        \* last response sent by GET /organs
    boot,            \* db, dbPromise, the body of initDb and its callers
    session          \* the browser: localStorage and the state of App

vars == <<users, organs, organ_requests, matches, seq, allocLog, suggestResp,
          listResp, boot, session>>

\* The four relations
tables == <<users, organs, organ_requests, matches>>

-----------------------------------------------------------------------------
(* Bounds of the exploration *)

MaxOrgans == 3      \* rows ever inserted into organs
MaxRequests == 3    \* rows ever inserted into organ_requests
MaxCalls == 2       \* POST /admin/matches calls answered

-----------------------------------------------------------------------------
(* Values *)

NULL == "NULL"

BloodGroups == {"O-", "O+", "A-", "A+", "B-", "B+", "AB-", "AB+"}

\* Mutant of bloodCompatibility: O+ taken for a universal donor
bloodCompatibility_OPlusUniversal ==
    [g \in BloodGroups |->
        CASE g = "O-"  -> {"O-", "O+", "A-", "A+", "B-", "B+", "AB-", "AB+"}
          [] g = "O+"  -> {"O-", "O+", "A-", "A+", "B-", "B+", "AB-", "AB+"}
          [] g = "A-"  -> {"A-", "A+", "AB-", "AB+"}
          [] g = "A+"  -> {"A+", "AB+"}
          [] g = "B-"  -> {"B-", "B+", "AB-", "AB+"}
          [] g = "B+"  -> {"B+", "AB+"}
          [] g = "AB-" -> {"AB-", "AB+"}
          [] g = "AB+" -> {"AB+"}]

\* The literal of the suggest handler: donor group -> recipient groups.
bloodCompatibility ==
    [g \in BloodGroups |->
        CASE g = "O-"  -> {"O-", "O+", "A-", "A+", "B-", "B+", "AB-", "AB+"}
          [] g = "O+"  -> {"O+", "A+", "B+", "AB+"}
          [] g = "A-"  -> {"A-", "A+", "AB-", "AB+"}
          [] g = "A+"  -> {"A+", "AB+"}
          [] g = "B-"  -> {"B-", "B+", "AB-", "AB+"}
          [] g = "B+"  -> {"B+", "AB+"}
          [] g = "AB-" -> {"AB-", "AB+"}
          [] g = "AB+" -> {"AB+"}]

\* bloodCompatibility[organ.donor_blood_group] || []
compatibleRecipients(donorGroup) ==
    IF donorGroup \in DOMAIN bloodCompatibility
    THEN bloodCompatibility[donorGroup]
    ELSE {}

\* bloodCompatibility is an object literal: a lookup by a name that
\* Object.prototype defines yields that inherited member, which is truthy
\* and has no includes(), so compatibleRecipients.includes(...) throws a
\* TypeError.
ObjectPrototypeKeys == {"constructor", "toString"}

includesThrows(donorGroup) ==
    /\ donorGroup \notin DOMAIN bloodCompatibility
    /\ donorGroup \in ObjectPrototypeKeys

-----------------------------------------------------------------------------
(* Row lookup: SELECT ... WHERE id = ? *)

OrganIds == {o.id : o \in organs}
RequestIds == {r.id : r \in organ_requests}

OrganRow(id) == CHOOSE o \in organs : o.id = id
RequestRow(id) == CHOOSE r \in organ_requests : r.id = id

\* What a reader of storage sees of one row ("NONE": no such row)
OrganStatus(id) ==
    IF id \in OrganIds THEN OrganRow(id).availability_status ELSE "NONE"
RequestStatus(id) ==
    IF id \in RequestIds THEN RequestRow(id).status ELSE "NONE"
RequestNote(id) ==
    IF id \in RequestIds THEN RequestRow(id).admin_note ELSE "NONE"

-----------------------------------------------------------------------------
(* Initial state: initDb has created the tables and its admin row (users   *)
(* id 1); the seed script has then deleted every row and inserted its own, *)
(* so AUTOINCREMENT hands the seeded users the ids 2..7.                   *)

SeedUsers ==
    { [id |-> 2, blood_group |-> "O+",  role |-> "ADMIN"],
      [id |-> 3, blood_group |-> "O-",  role |-> "DONOR"],
      [id |-> 4, blood_group |-> "A+",  role |-> "DONOR"],
      [id |-> 5, blood_group |-> "AB+", role |-> "RECIPIENT"],
      [id |-> 6, blood_group |-> "B-",  role |-> "RECIPIENT"],
      [id |-> 7, blood_group |-> "B+",  role |-> "DONOR"] }

SeedOrgans ==
    { [id |-> 1, organ_type |-> "KIDNEY", blood_group |-> "O-", donor_id |-> 3,
       availability_status |-> "AVAILABLE"],
      [id |-> 2, organ_type |-> "LIVER", blood_group |-> "A+", donor_id |-> 4,
       availability_status |-> "AVAILABLE"] }

SeedRequests ==
    { [id |-> 1, recipient_id |-> 5, organ_type |-> "KIDNEY", blood_group |-> "AB+",
       urgency_level |-> "CRITICAL", status |-> "PENDING", admin_note |-> NULL],
      [id |-> 2, recipient_id |-> 6, organ_type |-> "LIVER", blood_group |-> "B-",
       urgency_level |-> "MEDIUM", status |-> "PENDING", admin_note |-> NULL] }

NoSuggest == [request_id |-> 0, code |-> 0, body |-> {}]

\* An absent query parameter (req.query.type, req.query.bloodGroup)
undefined == "undefined"

NoList == [type |-> undefined, bloodGroup |-> undefined, code |-> 0, body |-> {}]

\* Who calls initDb while the process starts: startServer and the
\* middleware of the first requests
Callers == {"startServer", "request1", "request2", "request3"}

\* initDb has completed with the SQLite handle
Booted ==
    [db |-> "sqlite", dbPromise |-> "fulfilled", value |-> "sqlite",
     body |-> "done", runs |-> 1, created |-> 0,
     callers |-> [c \in Callers |-> "sqlite"]]

\* A browser with an empty localStorage showing the landing page
SignedOut ==
    [token |-> "none", savedView |-> "null", view |-> "landing",
     user |-> "null", loading |-> FALSE, checkAuth |-> "noToken"]

Init ==
    /\ boot = Booted
    /\ session = SignedOut
    /\ users = SeedUsers
    /\ organs = SeedOrgans
    /\ organ_requests = SeedRequests
    /\ matches = {}
    /\ seq = [users |-> 7, organs |-> 2, organ_requests |-> 2, matches |-> 0]
    /\ allocLog = <<>>
    /\ suggestResp = NoSuggest
    /\ listResp = NoList

-----------------------------------------------------------------------------
(* Request inputs *)

\* Authenticated callers of the intake routes (req.user.id)
DonorInputs == {4}
RecipientInputs == {6}

OrganBodies ==
    { [organ_type |-> "KIDNEY", blood_group |-> "A+"] }

RequestBodies ==
    { [organ_type |-> "KIDNEY", blood_group |-> "B-", urgency_level |-> "HIGH"] }

\* Bodies of POST /admin/requests/:id/status
StatusBodies ==
    { [status |-> "REJECTED", admin_note |-> "reviewed"] }

\* Identifiers a caller may name; the highest is absent until it is inserted
OrganIdInputs == 1..MaxOrgans
RequestIdInputs == 1..MaxRequests

\* The denormalized fields of the body of POST /admin/matches
AuditInputs ==
    { [donor_id |-> 3, recipient_id |-> 5, organ_type |-> "KIDNEY"],
      [donor_id |-> 4, recipient_id |-> 6, organ_type |-> "LIVER"] }

AllocateBodies ==
    { [donor_id |-> a.donor_id, recipient_id |-> a.recipient_id,
       organ_id |-> o, request_id |-> r, organ_type |-> a.organ_type] :
         a \in AuditInputs, o \in OrganIdInputs, r \in RequestIdInputs }

-----------------------------------------------------------------------------
(* POST /organs *)

\* Mutant of RegisterOrgan: a status the body carries is stored
RegisterOrgan_StatusFromBody(uid, body) ==
    /\ seq.organs < MaxOrgans
    /\ organs' = organs \cup
          { [id |-> seq.organs + 1, organ_type |-> body.organ_type,
             blood_group |-> body.blood_group, donor_id |-> uid,
             availability_status |->
                 IF "availability_status" \in DOMAIN body
                 THEN body.availability_status ELSE "AVAILABLE"] }
    /\ seq' = [seq EXCEPT !.organs = @ + 1]
    /\ UNCHANGED <<users, organ_requests, matches, allocLog, suggestResp, listResp,
                   boot, session>>

RegisterOrgan(uid, body) ==
    /\ seq.organs < MaxOrgans
    /\ organs' = organs \cup
          { [id |-> seq.organs + 1, organ_type |-> body.organ_type,
             blood_group |-> body.blood_group, donor_id |-> uid,
             availability_status |-> "AVAILABLE"] }
    /\ seq' = [seq EXCEPT !.organs = @ + 1]
    /\ UNCHANGED <<users, organ_requests, matches, allocLog, suggestResp, listResp,
                   boot, session>>

(* POST /requests *)

SubmitRequest(uid, body) ==
    /\ seq.organ_requests < MaxRequests
    /\ organ_requests' = organ_requests \cup
          { [id |-> seq.organ_requests + 1, recipient_id |-> uid,
             organ_type |-> body.organ_type, blood_group |-> body.blood_group,
             urgency_level |-> body.urgency_level, status |-> "PENDING",
             admin_note |-> NULL] }
    /\ seq' = [seq EXCEPT !.organ_requests = @ + 1]
    /\ UNCHANGED <<users, organs, matches, allocLog, suggestResp, listResp,
                   boot, session>>

(* POST /admin/requests/:id/status *)

UpdateRequestStatus(id, body) ==
    /\ organ_requests' =
          { IF r.id = id
            THEN [r EXCEPT !.status = body.status, !.admin_note = body.admin_note]
            ELSE r : r \in organ_requests }
    /\ UNCHANGED <<users, organs, matches, seq, allocLog, suggestResp, listResp,
                   boot, session>>

-----------------------------------------------------------------------------
(* GET /admin/matches/suggest/:requestId *)

\* organs JOIN users WHERE organ_type = ? AND availability_status = 'AVAILABLE'
availableOrgans(organ_type) ==
    { [organ |-> o, donor_blood_group |-> u.blood_group] :
        <<o, u>> \in { p \in organs \X users :
                          /\ p[1].donor_id = p[2].id
                          /\ p[1].organ_type = organ_type
                          /\ p[1].availability_status = "AVAILABLE" } }

\* Mutant of suggestions: the blood-group filter is lost
suggestions_Unfiltered(request) ==
    availableOrgans(request.organ_type)

suggestions(request) ==
    { a \in availableOrgans(request.organ_type) :
        request.blood_group \in compatibleRecipients(a.donor_blood_group) }

\* The filter callback throws on the first candidate whose lookup is not an
\* array
filterThrows(request) ==
    \E a \in availableOrgans(request.organ_type) :
        includesThrows(a.donor_blood_group)

\* The response of the handler: 404 when the request row is missing, 500
\* (Express's error handler) when the filter throws, else the ids of the
\* suggested organs
SuggestResponse(requestId) ==
    IF requestId \notin RequestIds
    THEN [request_id |-> requestId, code |-> 404, body |-> {}]
    ELSE IF filterThrows(RequestRow(requestId))
    THEN [request_id |-> requestId, code |-> 500, body |-> {}]
    ELSE [request_id |-> requestId, code |-> 200,
          body |-> { a.organ.id : a \in suggestions(RequestRow(requestId)) }]

\* Mutant of Suggest: the handler stamps the request it has looked at
Suggest_Stamping(requestId) ==
    /\ suggestResp' = SuggestResponse(requestId)
    /\ organ_requests' =
          { IF r.id = requestId THEN [r EXCEPT !.admin_note = "suggested"] ELSE r :
              r \in organ_requests }
    /\ UNCHANGED <<users, organs, matches, seq, allocLog, listResp,
                   boot, session>>

Suggest(requestId) ==
    /\ suggestResp' = SuggestResponse(requestId)
    /\ UNCHANGED <<users, organs, organ_requests, matches, seq, allocLog, listResp,
                   boot, session>>

-----------------------------------------------------------------------------
(* GET /organs *)

\* Query strings of GET /organs
TypeFilters == {undefined, "KIDNEY"}
GroupFilters == {undefined, "A+"}

\* Mutant of listedOrgans: the status condition of the WHERE clause is lost
listedOrgans_AnyStatus(type) ==
    { o \in organs :
        /\ \E u \in users : o.donor_id = u.id
        /\ (type # undefined => o.organ_type = type) }

\* organs JOIN users WHERE availability_status = 'AVAILABLE' [AND organ_type = ?]
listedOrgans(type) ==
    { o \in organs :
        /\ \E u \in users : o.donor_id = u.id
        /\ o.availability_status = "AVAILABLE"
        /\ (type # undefined => o.organ_type = type) }

\* With bloodGroup the query gets "AND blood_group = ?": organs and users
\* both have a column blood_group, so SQLite refuses to prepare the
\* statement (ambiguous column name) and Express answers 500.
ListResponse(type, bloodGroup) ==
    IF bloodGroup # undefined
    THEN [type |-> type, bloodGroup |-> bloodGroup, code |-> 500, body |-> {}]
    ELSE [type |-> type, bloodGroup |-> bloodGroup, code |-> 200,
          body |-> { o.id : o \in listedOrgans(type) }]

ListAvailable(type, bloodGroup) ==
    /\ listResp' = ListResponse(type, bloodGroup)
    /\ UNCHANGED <<users, organs, organ_requests, matches, seq, allocLog, suggestResp,
                   boot, session>>

-----------------------------------------------------------------------------
(* POST /admin/matches *)

\* The three statements of the transaction callback
InsertMatch(body) ==
    matches \cup
      { [id |-> seq.matches + 1, donor_id |-> body.donor_id,
         recipient_id |-> body.recipient_id, organ_id |-> body.organ_id,
         request_id |-> body.request_id, organ_type |-> body.organ_type,
         status |-> "COMPLETED"] }

UpdateOrgan(organ_id) ==
    { IF o.id = organ_id THEN [o EXCEPT !.availability_status = "MATCHED"] ELSE o :
        o \in organs }

UpdateRequest(request_id) ==
    { IF r.id = request_id
      THEN [r EXCEPT !.status = "APPROVED",
                     !.admin_note = "Matched with compatible donor"]
      ELSE r : r \in organ_requests }

Allocate(body) ==
    /\ Len(allocLog) < MaxCalls
    /\ matches' = InsertMatch(body)
    /\ organs' = UpdateOrgan(body.organ_id)
    /\ organ_requests' = UpdateRequest(body.request_id)
    /\ seq' = [seq EXCEPT !.matches = @ + 1]
    /\ allocLog' = Append(allocLog,
          [body |-> body, code |-> 200,
           organ_was |-> OrganStatus(body.organ_id),
           request_was |-> RequestStatus(body.request_id)])
    /\ UNCHANGED <<users, suggestResp, listResp, boot, session>>

\* A storage fault (disk full, I/O error, busy database) makes one of the
\* three statements throw.  The statements before it have run inside the
\* transaction; db.transaction then issues ROLLBACK and rethrows, and the
\* handler's catch answers 400.
FaultPoints == {1, 2, 3}

\* The store as the statements before the failing one leave it
PartialWrites(body, failAt) ==
    [matches        |-> IF failAt > 1 THEN InsertMatch(body) ELSE matches,
     organs         |-> IF failAt > 2 THEN UpdateOrgan(body.organ_id) ELSE organs,
     organ_requests |-> organ_requests,
     seq            |-> IF failAt > 1 THEN [seq EXCEPT !.matches = @ + 1] ELSE seq]

\* Mutant of transaction: the callback's writes stay when it throws
transaction_NoRollback(body, failAt) ==
    PartialWrites(body, failAt)

\* ROLLBACK discards what was written since BEGIN, the sqlite_sequence row
\* of matches included
ROLLBACK(atBegin, written) == atBegin

\* db.transaction(cb)() when cb throws: BEGIN, the statements up to the
\* failing one, ROLLBACK
transaction(body, failAt) ==
    ROLLBACK([matches        |-> matches,
              organs         |-> organs,
              organ_requests |-> organ_requests,
              seq            |-> seq],
             PartialWrites(body, failAt))

AllocateAborts(body, failAt) ==
    /\ Len(allocLog) < MaxCalls
    /\ matches' = transaction(body, failAt).matches
    /\ organs' = transaction(body, failAt).organs
    /\ organ_requests' = transaction(body, failAt).organ_requests
    /\ seq' = transaction(body, failAt).seq
    /\ allocLog' = Append(allocLog,
          [body |-> body, code |-> 400,
           organ_was |-> OrganStatus(body.organ_id),
           request_was |-> RequestStatus(body.request_id)])
    /\ UNCHANGED <<users, suggestResp, listResp, boot, session>>

-----------------------------------------------------------------------------
(* POST /auth/register *)

MaxUsers == 8

\* Bodies of POST /auth/register: blood_group is stored as it comes
\* (a JSON null is stored as NULL)
RegisterBodies ==
    { [blood_group |-> g, role |-> "DONOR"] : g \in {"X", NULL, "constructor"} }

Register(body) ==
    /\ seq.users < MaxUsers
    /\ users' = users \cup
          { [id |-> seq.users + 1, blood_group |-> body.blood_group,
             role |-> body.role] }
    /\ seq' = [seq EXCEPT !.users = @ + 1]
    /\ UNCHANGED <<organs, organ_requests, matches, allocLog, suggestResp, listResp,
                   boot, session>>

-----------------------------------------------------------------------------
(* DELETE /admin/users/:id *)

\* Users an admin may name
UserIdInputs == {3, 5}

\* Mutant of DeleteUser: the user's match rows are kept, with the user
\* blanked
DeleteUser_KeepsMatches(id) ==
    /\ matches' = { IF m.donor_id = id THEN [m EXCEPT !.donor_id = 0]
                    ELSE IF m.recipient_id = id THEN [m EXCEPT !.recipient_id = 0]
                    ELSE m : m \in matches }
    /\ organ_requests' = { r \in organ_requests : r.recipient_id # id }
    /\ organs' = { o \in organs : o.donor_id # id }
    /\ users' = { u \in users : u.id # id }
    /\ UNCHANGED <<seq, allocLog, suggestResp, listResp, boot, session>>

\* The four DELETEs of the transaction callback
DeleteUser(id) ==
    /\ matches' = { m \in matches : m.donor_id # id /\ m.recipient_id # id }
    /\ organ_requests' = { r \in organ_requests : r.recipient_id # id }
    /\ organs' = { o \in organs : o.donor_id # id }
    /\ users' = { u \in users : u.id # id }
    /\ UNCHANGED <<seq, allocLog, suggestResp, listResp, boot, session>>

-----------------------------------------------------------------------------
(* initDb and the DB-initialization middleware *)

\* The process starts: db and dbPromise unset, nobody has called initDb
BootStart ==
    [db |-> "undefined", dbPromise |-> "null", value |-> "none",
     body |-> "none", runs |-> 0, created |-> 0,
     callers |-> [c \in Callers |-> "idle"]]

\* The database file is new, or holds the admin of an earlier run
AdminRow == [id |-> 1, blood_group |-> "O+", role |-> "ADMIN"]

InitBoot ==
    /\ boot = BootStart
    /\ session = SignedOut
    /\ users \in { {}, {AdminRow} }
    /\ seq = [users |-> Cardinality(users), organs |-> 0, organ_requests |-> 0,
              matches |-> 0]
    /\ organs = {} /\ organ_requests = {} /\ matches = {}
    /\ allocLog = <<>> /\ suggestResp = NoSuggest /\ listResp = NoList

\* Mutant of initDb: the guard reads db, which is set only when the body ends
initDb_GuardsOnDb(c) ==
    /\ boot.callers[c] = "idle"
    /\ c # "startServer" => boot.db = "undefined"
    /\ boot' = IF boot.db # "undefined"
               THEN [boot EXCEPT !.callers[c] = "awaiting"]
               ELSE [boot EXCEPT !.dbPromise = "pending", !.body = "import",
                                 !.runs = @ + 1, !.callers[c] = "awaiting"]
    /\ UNCHANGED <<users, organs, organ_requests, matches, seq, allocLog,
                   suggestResp, listResp, session>>

\* A caller reaches initDb(): startServer always, the middleware when it
\* sees db unset.  With dbPromise set the call returns it; else it stores a
\* new promise and the body runs up to its first await, the import.
initDb(c) ==
    /\ boot.callers[c] = "idle"
    /\ c # "startServer" => boot.db = "undefined"
    /\ boot' = IF boot.dbPromise # "null"
               THEN [boot EXCEPT !.callers[c] = "awaiting"]
               ELSE [boot EXCEPT !.dbPromise = "pending", !.body = "import",
                                 !.runs = @ + 1, !.callers[c] = "awaiting"]
    /\ UNCHANGED <<users, organs, organ_requests, matches, seq, allocLog,
                   suggestResp, listResp, session>>

\* The middleware sees db set and goes on with it
MiddlewareSkips(c) ==
    /\ c # "startServer"
    /\ boot.callers[c] = "idle"
    /\ boot.db # "undefined"
    /\ boot' = [boot EXCEPT !.callers[c] = boot.db]
    /\ UNCHANGED <<users, organs, organ_requests, matches, seq, allocLog,
                   suggestResp, listResp, session>>

\* The import resolves; the database is opened, the tables are created and
\* the admin is looked up.  With an admin the body ends; without one it
\* awaits bcrypt.hash.
ImportResolves ==
    /\ boot.body = "import"
    /\ boot' = IF \E u \in users : u.role = "ADMIN"
               THEN [boot EXCEPT !.db = "sqlite", !.value = "sqlite",
                                 !.dbPromise = "fulfilled", !.body = "done"]
               ELSE [boot EXCEPT !.body = "hash"]
    /\ UNCHANGED <<users, organs, organ_requests, matches, seq, allocLog,
                   suggestResp, listResp, session>>

\* The hash resolves; the admin is inserted and the body ends
HashResolves ==
    /\ boot.body = "hash"
    /\ users' = users \cup
          { [id |-> seq.users + 1, blood_group |-> "O+", role |-> "ADMIN"] }
    /\ seq' = [seq EXCEPT !.users = @ + 1]
    /\ boot' = [boot EXCEPT !.db = "sqlite", !.value = "sqlite",
                            !.dbPromise = "fulfilled", !.body = "done",
                            !.created = @ + 1]
    /\ UNCHANGED <<organs, organ_requests, matches, allocLog, suggestResp,
                   listResp, session>>

\* Anything in the try block throws (the import, new Database, exec, the
\* hash, the INSERT): the catch installs the mock store and returns it
BodyFails ==
    /\ boot.body \in {"import", "hash"}
    /\ boot' = [boot EXCEPT !.db = "mock", !.value = "mock",
                            !.dbPromise = "fulfilled", !.body = "done"]
    /\ UNCHANGED <<users, organs, organ_requests, matches, seq, allocLog,
                   suggestResp, listResp, session>>

\* A caller's await initDb() resumes with the value of the promise
Resumes(c) ==
    /\ boot.callers[c] = "awaiting"
    /\ boot.dbPromise = "fulfilled"
    /\ boot' = [boot EXCEPT !.callers[c] = boot.value]
    /\ UNCHANGED <<users, organs, organ_requests, matches, seq, allocLog,
                   suggestResp, listResp, session>>

NextBoot ==
    \/ \E c \in Callers : initDb(c)
    \/ \E c \in Callers : MiddlewareSkips(c)
    \/ ImportResolves
    \/ HashResolves
    \/ BodyFails
    \/ \E c \in Callers : Resumes(c)

SpecBoot == InitBoot /\ [][NextBoot]_vars

-----------------------------------------------------------------------------
(* The browser: App, checkAuth, handleLogout *)

\* Values of the view the pages set
Views == {"landing", "auth", "dashboard", "profile"}

\* The page loads: user null, loading true, view from localStorage or
\* 'landing'; checkAuth has not run
Loaded(token, savedView) ==
    [token |-> token, savedView |-> savedView,
     view |-> IF savedView = "null" THEN "landing" ELSE savedView,
     user |-> "null", loading |-> TRUE, checkAuth |-> "start"]

\* localStorage is whatever earlier sessions and other tabs have left
InitClient ==
    /\ session \in { Loaded(token, savedView) :
                       token \in {"none", "jwt"}, savedView \in Views \cup {"null"} }
    /\ boot = Booted
    /\ users = SeedUsers
    /\ organs = SeedOrgans
    /\ organ_requests = SeedRequests
    /\ matches = {}
    /\ seq = [users |-> 7, organs |-> 2, organ_requests |-> 2, matches |-> 0]
    /\ allocLog = <<>>
    /\ suggestResp = NoSuggest
    /\ listResp = NoList

\* setView(newView); localStorage.setItem('view', newView)
updateView(s, newView) == [s EXCEPT !.view = newView, !.savedView = newView]

\* What App returns
Rendered ==
    IF session.loading THEN "loading"
    ELSE IF session.user = "null"
         THEN IF session.view = "auth" THEN "auth" ELSE "landing"
         ELSE session.view

\* Mutant of checkAuth: without a token the saved view is left as it is
checkAuth_KeepsView ==
    /\ session.checkAuth = "start"
    /\ session' =
         IF session.token # "none"
         THEN [session EXCEPT !.checkAuth = "me"]
         ELSE [session EXCEPT !.loading = FALSE, !.checkAuth = "noToken"]
    /\ UNCHANGED <<users, organs, organ_requests, matches, seq, allocLog,
                   suggestResp, listResp, boot>>

\* checkAuth up to its await: with a token it calls /api/auth/me; without
\* one it resets a saved view other than 'auth' and 'landing' and ends
checkAuth ==
    /\ session.checkAuth = "start"
    /\ session' =
         IF session.token # "none"
         THEN [session EXCEPT !.checkAuth = "me"]
         ELSE LET s == IF session.savedView \notin {"null", "auth", "landing"}
                       THEN updateView(session, "landing")
                       ELSE session
              IN [s EXCEPT !.loading = FALSE, !.checkAuth = "noToken"]
    /\ UNCHANGED <<users, organs, organ_requests, matches, seq, allocLog,
                   suggestResp, listResp, boot>>

\* /api/auth/me answers 200: with the user's row, or with nothing when the
\* row is gone
MeResolves(res) ==
    /\ session.checkAuth = "me"
    /\ LET s == [session EXCEPT !.user = res]
           t == IF s.savedView \in {"auth", "landing"}
                THEN updateView(s, "dashboard")
                ELSE s
       IN session' = [t EXCEPT !.loading = FALSE, !.checkAuth = "accepted"]
    /\ UNCHANGED <<users, organs, organ_requests, matches, seq, allocLog,
                   suggestResp, listResp, boot>>

\* /api/auth/me answers 401 or the fetch fails: the catch branch
MeRejects ==
    /\ session.checkAuth = "me"
    /\ session' = [updateView([session EXCEPT !.token = "none", !.user = "null"],
                              "landing")
                     EXCEPT !.loading = FALSE, !.checkAuth = "rejected"]
    /\ UNCHANGED <<users, organs, organ_requests, matches, seq, allocLog,
                   suggestResp, listResp, boot>>

\* LandingPage onStart
Start ==
    /\ Rendered = "landing"
    /\ session' = updateView(session, "auth")
    /\ UNCHANGED <<users, organs, organ_requests, matches, seq, allocLog,
                   suggestResp, listResp, boot>>

\* AuthPage: the login succeeds, the token is stored, onLogin runs
Login ==
    /\ Rendered = "auth"
    /\ session' = updateView([session EXCEPT !.token = "jwt", !.user = "user"],
                             "dashboard")
    /\ UNCHANGED <<users, organs, organ_requests, matches, seq, allocLog,
                   suggestResp, listResp, boot>>

\* A navigation button of the signed-in layout
Navigate(newView) ==
    /\ ~session.loading /\ session.user # "null"
    /\ session' = updateView(session, newView)
    /\ UNCHANGED <<users, organs, organ_requests, matches, seq, allocLog,
                   suggestResp, listResp, boot>>

handleLogout ==
    /\ ~session.loading /\ session.user # "null"
    /\ session' = updateView([session EXCEPT !.token = "none",
                                             !.savedView = "null",
                                             !.user = "null"],
                             "landing")
    /\ UNCHANGED <<users, organs, organ_requests, matches, seq, allocLog,
                   suggestResp, listResp, boot>>

\* The page is loaded again: localStorage stays, the state of App is new
Reload ==
    /\ session' = Loaded(session.token, session.savedView)
    /\ UNCHANGED <<users, organs, organ_requests, matches, seq, allocLog,
                   suggestResp, listResp, boot>>

\* Another tab of the same browser writes localStorage: it logs in or out,
\* or navigates
OtherTab(token, savedView) ==
    /\ session' = [session EXCEPT !.token = token, !.savedView = savedView]
    /\ UNCHANGED <<users, organs, organ_requests, matches, seq, allocLog,
                   suggestResp, listResp, boot>>

NextClient ==
    \/ checkAuth
    \/ \E res \in {"user", "null"} : MeResolves(res)
    \/ MeRejects
    \/ Start
    \/ Login
    \/ \E newView \in {"dashboard", "profile"} : Navigate(newView)
    \/ handleLogout
    \/ Reload
    \/ \E token \in {"none", "jwt"}, savedView \in Views : OtherTab(token, savedView)

SpecClient == InitClient /\ [][NextClient]_vars

-----------------------------------------------------------------------------

Next ==
    \/ \E uid \in DonorInputs, body \in OrganBodies : RegisterOrgan(uid, body)
    \/ \E uid \in RecipientInputs, body \in RequestBodies : SubmitRequest(uid, body)
    \/ \E id \in RequestIdInputs, body \in StatusBodies : UpdateRequestStatus(id, body)
    \/ \E id \in RequestIdInputs : Suggest(id)
    \/ \E body \in AllocateBodies : Allocate(body)

Spec == Init /\ [][Next]_vars

\* The same system with the callers of GET /organs.  Neither reader reads the
\* audit fields of a matches row, so the allocate calls here carry one
\* choice of them.
ReadAllocateBodies == { b \in AllocateBodies : b.organ_type = "KIDNEY" }

NextRead ==
    \/ \E uid \in DonorInputs, body \in OrganBodies : RegisterOrgan(uid, body)
    \/ \E uid \in RecipientInputs, body \in RequestBodies : SubmitRequest(uid, body)
    \/ \E id \in RequestIdInputs, body \in StatusBodies : UpdateRequestStatus(id, body)
    \/ \E id \in RequestIdInputs : Suggest(id)
    \/ \E type \in TypeFilters, bloodGroup \in GroupFilters :
          ListAvailable(type, bloodGroup)
    \/ \E body \in ReadAllocateBodies : Allocate(body)

SpecRead == Init /\ [][NextRead]_vars

\* The writers alone, the status route called with whatever status its
\* body carries: the handler writes req.body.status as it comes.
AnyStatusBodies ==
    StatusBodies \cup
      { [status |-> "APPROVED", admin_note |-> "approved by hand"],
        [status |-> "CANCELLED", admin_note |-> "withdrawn"] }

NextStatus ==
    \/ \E uid \in DonorInputs, body \in OrganBodies : RegisterOrgan(uid, body)
    \/ \E uid \in RecipientInputs, body \in RequestBodies : SubmitRequest(uid, body)
    \/ \E id \in RequestIdInputs, body \in AnyStatusBodies : UpdateRequestStatus(id, body)
    \/ \E body \in AllocateBodies : Allocate(body)

SpecStatus == Init /\ [][NextStatus]_vars

\* The writers with storage faults in the allocate transaction
NextFault ==
    \/ \E uid \in DonorInputs, body \in OrganBodies : RegisterOrgan(uid, body)
    \/ \E uid \in RecipientInputs, body \in RequestBodies : SubmitRequest(uid, body)
    \/ \E id \in RequestIdInputs, body \in StatusBodies : UpdateRequestStatus(id, body)
    \/ \E body \in ReadAllocateBodies : Allocate(body)
    \/ \E body \in ReadAllocateBodies, failAt \in FaultPoints : AllocateAborts(body, failAt)

SpecFault == Init /\ [][NextFault]_vars

\* The enumerations: the dashboards' select options and the request type
OrganTypes == {"KIDNEY", "LIVER", "HEART", "LUNGS", "PANCREAS", "CORNEA"}
UrgencyLevels == {"CRITICAL", "HIGH", "MEDIUM", "LOW"}

\* Bodies a caller of the API may post, values outside the enumerations
\* among them
AnyOrganBodies ==
    OrganBodies \cup
      { [organ_type |-> "BRAIN", blood_group |-> "A+"],
        [organ_type |-> "KIDNEY", blood_group |-> "X"] }

AnyRequestBodies ==
    RequestBodies \cup
      { [organ_type |-> "BRAIN", blood_group |-> "B-", urgency_level |-> "HIGH"],
        [organ_type |-> "KIDNEY", blood_group |-> "X", urgency_level |-> "HIGH"],
        [organ_type |-> "KIDNEY", blood_group |-> "B-", urgency_level |-> "URGENT"] }

NextIntake ==
    \/ \E uid \in DonorInputs, body \in AnyOrganBodies : RegisterOrgan(uid, body)
    \/ \E uid \in RecipientInputs, body \in AnyRequestBodies : SubmitRequest(uid, body)
    \/ \E id \in RequestIdInputs, body \in StatusBodies : UpdateRequestStatus(id, body)
    \/ \E body \in ReadAllocateBodies : Allocate(body)

SpecIntake == Init /\ [][NextIntake]_vars

\* Bodies that carry fields the intake handlers do not destructure
ForgedOrganBodies ==
    { [organ_type |-> "HEART", blood_group |-> "A+",
       availability_status |-> "MATCHED"] }

ForgedRequestBodies ==
    { [organ_type |-> "HEART", blood_group |-> "B-", urgency_level |-> "HIGH",
       status |-> "APPROVED", admin_note |-> "self-approved"] }

NextForged ==
    \/ \E uid \in DonorInputs, body \in OrganBodies \cup ForgedOrganBodies :
          RegisterOrgan(uid, body)
    \/ \E uid \in RecipientInputs, body \in RequestBodies \cup ForgedRequestBodies :
          SubmitRequest(uid, body)
    \/ \E id \in RequestIdInputs, body \in StatusBodies : UpdateRequestStatus(id, body)
    \/ \E body \in ReadAllocateBodies : Allocate(body)

SpecForged == Init /\ [][NextForged]_vars

\* The writers with user removal
NextDelete ==
    \/ \E uid \in DonorInputs, body \in OrganBodies : RegisterOrgan(uid, body)
    \/ \E uid \in RecipientInputs, body \in RequestBodies : SubmitRequest(uid, body)
    \/ \E id \in RequestIdInputs, body \in StatusBodies : UpdateRequestStatus(id, body)
    \/ \E body \in AllocateBodies : Allocate(body)
    \/ \E id \in UserIdInputs : DeleteUser(id)

SpecDelete == Init /\ [][NextDelete]_vars

\* The system with registration of new donors.  A caller of POST /organs
\* holds a token, which login issues to an existing user only.
NewDonorInputs == {8}

TokenRegisterOrgan(uid, body) ==
    /\ uid \in { u.id : u \in users }
    /\ RegisterOrgan(uid, body)

NextRegister ==
    \/ \E body \in RegisterBodies : Register(body)
    \/ \E uid \in DonorInputs \cup NewDonorInputs, body \in OrganBodies :
          TokenRegisterOrgan(uid, body)
    \/ \E uid \in RecipientInputs, body \in RequestBodies : SubmitRequest(uid, body)
    \/ \E id \in RequestIdInputs, body \in StatusBodies : UpdateRequestStatus(id, body)
    \/ \E id \in RequestIdInputs : Suggest(id)
    \/ \E body \in ReadAllocateBodies : Allocate(body)

SpecRegister == Init /\ [][NextRegister]_vars

-----------------------------------------------------------------------------
(* The response POST /admin/matches sends in a step, and what its caller    *)
(* named: used by the properties below that speak of one call.             *)

Answered == Len(allocLog') = Len(allocLog) + 1
Answer == allocLog'[Len(allocLog')]

MatchesOfOrgan(organ_id) == { m \in matches : m.organ_id = organ_id }
MatchesOfRequest(request_id) == { m \in matches : m.request_id = request_id }

\* The donor of the organ exists and may supply the request's blood group
DonorCompatible(o, r) ==
    \E u \in users :
        /\ u.id = o.donor_id
        /\ r.blood_group \in compatibleRecipients(u.blood_group)

\* A pair allocate may link: same organ type, compatible donor
Allocatable(organ_id, request_id) ==
    /\ organ_id \in OrganIds
    /\ request_id \in RequestIds
    /\ OrganRow(organ_id).organ_type = RequestRow(request_id).organ_type
    /\ DonorCompatible(OrganRow(organ_id), RequestRow(request_id))

-----------------------------------------------------------------------------
(* C1: at most one Match row references any given organ, in every          *)
(* reachable state: no organ is ever assigned twice.                       *)
C1_OneMatchPerOrgan ==
    \A m1 \in matches, m2 \in matches :
        m1.organ_id = m2.organ_id => m1 = m2

(* C2: at most one Match row references any given request, in every        *)
(* reachable state: no request is matched to more than one organ.          *)
C2_OneMatchPerRequest ==
    \A m1 \in matches, m2 \in matches :
        m1.request_id = m2.request_id => m1 = m2

\* Two calls answered one after the other that contend for one donation:
\* the donation was AVAILABLE when the first was handled and each request
\* PENDING when its own call was handled, both pairs are ones allocate may
\* link, and the rows the first call addressed are still as that call left
\* them when the second is handled.
C3_Race(first, second) ==
    /\ first.body.organ_id = second.body.organ_id
    /\ first.body.request_id # second.body.request_id
    /\ first.organ_was = "AVAILABLE"
    /\ first.request_was = "PENDING"
    /\ second.request_was = "PENDING"
    /\ Allocatable(first.body.organ_id, first.body.request_id)
    /\ Allocatable(second.body.organ_id, second.body.request_id)
    /\ OrganStatus(first.body.organ_id) =
          (IF first.code = 200 THEN "MATCHED" ELSE "AVAILABLE")
    /\ RequestStatus(first.body.request_id) =
          (IF first.code = 200 THEN "APPROVED" ELSE "PENDING")

(* C3: of two allocate calls answered one after the other for the same     *)
(* AVAILABLE donation and two different PENDING requests (each a pair      *)
(* allocate may link, no other operation having touched the rows of the    *)
(* first call in between), exactly one is answered with success, and once  *)
(* both are answered one Match row references the donation and exactly one *)
(* of the two requests is APPROVED.                                        *)
C3_RaceHasOneWinner ==
    [][ \A d \in OrganIdInputs, r1 \in RequestIdInputs, r2 \in RequestIdInputs :
          (/\ Answered
           /\ Len(allocLog) >= 1
           /\ C3_Race(allocLog[Len(allocLog)], Answer)
           /\ Answer.body.organ_id = d
           /\ allocLog[Len(allocLog)].body.request_id = r1
           /\ Answer.body.request_id = r2)
          =>
          /\ (allocLog[Len(allocLog)].code = 200) # (Answer.code = 200)
          /\ Cardinality(MatchesOfOrgan(d)') = 1
          /\ (RequestStatus(r1)' = "APPROVED") # (RequestStatus(r2)' = "APPROVED")
      ]_vars

(* C4: allocate on a donation that is already MATCHED is answered with an  *)
(* error and changes nothing: no Match row is added or changed and the     *)
(* requests keep their status and note.                                    *)
C4_MatchedDonationRejected ==
    [][ (Answered /\ Answer.organ_was = "MATCHED")
        => /\ Answer.code # 200
           /\ UNCHANGED <<organs, organ_requests, matches>> ]_vars

(* C5: allocate with a request that is not PENDING (APPROVED or REJECTED)  *)
(* is answered with an error and changes nothing: the donation keeps its   *)
(* status, no Match row is inserted, the request keeps status and note.    *)
C5_ClosedRequestRejected ==
    [][ (Answered /\ Answer.request_was \in {"APPROVED", "REJECTED"})
        => /\ Answer.code # 200
           /\ UNCHANGED <<organs, organ_requests, matches>> ]_vars

(* C6: right after allocate(d, r) is answered with success, donation d is  *)
(* MATCHED, request r is APPROVED and a Match row references both.         *)
C6_SuccessAppliesAllThree ==
    [][ \A d \in OrganIdInputs, r \in RequestIdInputs :
          (/\ Answered
           /\ Answer.code = 200
           /\ Answer.body.organ_id = d
           /\ Answer.body.request_id = r)
          =>
          /\ OrganStatus(d)' = "MATCHED"
          /\ RequestStatus(r)' = "APPROVED"
          /\ \E m \in matches' : m.organ_id = d /\ m.request_id = r ]_vars

(* C7: in every reachable state a donation is MATCHED if and only if a     *)
(* Match row references it, and every Match row references a donation that *)
(* exists.                                                                 *)
C7_MatchedIffMatchRow ==
    /\ \A o \in organs :
          (o.availability_status = "MATCHED") <=> (MatchesOfOrgan(o.id) # {})
    /\ \A m \in matches : m.organ_id \in OrganIds

(* C8: allocate with a requestId that does not exist is answered NotFound  *)
(* and mutates no table.                                                   *)
C8_UnknownRequestNotFound ==
    [][ (Answered /\ Answer.request_was = "NONE")
        => /\ Answer.code = 404
           /\ UNCHANGED <<users, organs, organ_requests, matches>> ]_vars

(* C9: allocate with a donationId that does not exist is answered NotFound *)
(* (never success) and mutates no table.                                   *)
C9_UnknownDonationNotFound ==
    [][ (Answered /\ Answer.organ_was = "NONE")
        => /\ Answer.code = 404
           /\ UNCHANGED <<users, organs, organ_requests, matches>> ]_vars

(* C10: every Match row allocate creates links a donation and a request of *)
(* the same organ type whose donor's blood group may supply the request's  *)
(* blood group, as read from storage when the call is handled.             *)
C10_MatchOnlyCompatible ==
    [][ \A m \in matches' \ matches :
           (m.organ_id \in OrganIds /\ m.request_id \in RequestIds)
           => Allocatable(m.organ_id, m.request_id) ]_vars

-----------------------------------------------------------------------------
(* C11: a request's status leaves PENDING at most once: in every step, a   *)
(* request that is APPROVED or REJECTED keeps its status.                  *)
C11_RequestStatusOneWay ==
    [][ \A id \in RequestIdInputs :
          RequestStatus(id) \in {"APPROVED", "REJECTED"}
          => RequestStatus(id)' = RequestStatus(id) ]_vars

-----------------------------------------------------------------------------
\* No organ that suggest or GET /organs would return in this state, for any
\* request or query, is MATCHED
C12_NoMatchedReturned ==
    /\ \A id \in RequestIdInputs :
          \A o \in SuggestResponse(id).body : OrganStatus(o) # "MATCHED"
    /\ \A type \in TypeFilters, bloodGroup \in GroupFilters :
          \A o \in ListResponse(type, bloodGroup).body : OrganStatus(o) # "MATCHED"

(* C12: a donation's status is one-way: once MATCHED it is MATCHED in      *)
(* every later state (never AVAILABLE again), and in no state does suggest *)
(* or listAvailable return a MATCHED donation.                             *)
C12_DonationOneWay ==
    /\ []C12_NoMatchedReturned
    /\ [][ \A id \in OrganIdInputs :
             OrganStatus(id) = "MATCHED" => OrganStatus(id)' = "MATCHED" ]_vars

\* Organ 1 has been allocated, and both readers have answered since (before
\* that, each of these answers held organ 1)
C12_Witness ==
    /\ OrganStatus(1) = "MATCHED"
    /\ suggestResp.request_id = 1 /\ suggestResp.code = 200
    /\ 1 \notin suggestResp.body
    /\ listResp.type = "KIDNEY" /\ listResp.code = 200
    /\ 1 \notin listResp.body /\ 3 \in listResp.body


(* C13: in every storage state and for every request R, each donation     *)
(* returned by suggest(R) has R's organ type, is AVAILABLE, and is owned   *)
(* by a donor whose blood group the table makes compatible with R's.       *)
C13_SuggestSound ==
    \A id \in RequestIdInputs :
      \A oid \in SuggestResponse(id).body :
        /\ id \in RequestIds
        /\ \E o \in organs :
             /\ o.id = oid
             /\ o.organ_type = RequestRow(id).organ_type
             /\ o.availability_status = "AVAILABLE"
             /\ \E u \in users :
                  /\ u.id = o.donor_id
                  /\ RequestRow(id).blood_group \in bloodCompatibility[u.blood_group]

\* suggest answered request 3 (KIDNEY, B-) with the O- donor's kidney alone
\* while the A+ donor's kidney 3 was AVAILABLE
C13_Witness ==
    /\ suggestResp = SuggestResponse(3)
    /\ suggestResp.code = 200
    /\ suggestResp.body = {1}
    /\ OrganStatus(3) = "AVAILABLE"


(* C14: suggest is complete: for every existing request R, every AVAILABLE *)
(* donation of R's organ type whose donor's blood group is compatible with *)
(* R's is in suggest(R); so the AVAILABLE kidney of the O- donor is        *)
(* returned for the KIDNEY/AB+ request 1, and the liver of the A+ donor is *)
(* not returned for the LIVER/B- request 2.                                *)
C14_SuggestComplete ==
    /\ \A id \in RequestIds :
         /\ SuggestResponse(id).code = 200
         /\ \A o \in organs :
              ( /\ o.availability_status = "AVAILABLE"
                /\ o.organ_type = RequestRow(id).organ_type
                /\ DonorCompatible(o, RequestRow(id)) )
              => o.id \in SuggestResponse(id).body
    /\ OrganStatus(1) = "AVAILABLE" => 1 \in SuggestResponse(1).body
    /\ 2 \notin SuggestResponse(2).body

\* The standard ABO/Rh donation relation, stated from the antigens
Antigens(g) ==
    CASE g \in {"O-", "O+"}   -> {}
      [] g \in {"A-", "A+"}   -> {"A"}
      [] g \in {"B-", "B+"}   -> {"B"}
      [] g \in {"AB-", "AB+"} -> {"A", "B"}

RhPositive(g) == g \in {"O+", "A+", "B+", "AB+"}

StandardDonation(g, r) ==
    /\ Antigens(g) \subseteq Antigens(r)
    /\ (~RhPositive(g) \/ RhPositive(r))

(* C15: the compatibility table is the standard ABO/Rh donation relation   *)
(* on the eight groups: donor G supplies recipient R iff G's antigens are  *)
(* a subset of R's and (G is Rh- or R is Rh+).  So every group maps to a   *)
(* non-empty set containing itself, O- maps to all eight, AB+ maps to      *)
(* {AB+} only, and no Rh+ donor maps to an Rh- recipient; and suggest      *)
(* keeps a candidate exactly when the standard relation allows it.         *)
C15_TableIsStandard ==
    /\ Cardinality(BloodGroups) = 8
    /\ DOMAIN bloodCompatibility = BloodGroups
    /\ \A g \in BloodGroups :
         /\ compatibleRecipients(g) = { r \in BloodGroups : StandardDonation(g, r) }
         /\ compatibleRecipients(g) # {}
         /\ g \in compatibleRecipients(g)
         /\ RhPositive(g) => \A r \in compatibleRecipients(g) : RhPositive(r)
    /\ compatibleRecipients("O-") = BloodGroups
    /\ compatibleRecipients("AB+") = {"AB+"}
    /\ \A id \in RequestIds :
         \A a \in availableOrgans(RequestRow(id).organ_type) :
           a.organ.id \in SuggestResponse(id).body
             <=> StandardDonation(a.donor_blood_group, RequestRow(id).blood_group)

\* suggest has looked up the rows of an O- donor and an A+ donor for the
\* B- request 3 and kept the O- donor's kidney only
C15_Witness ==
    /\ suggestResp.request_id = 3 /\ suggestResp.code = 200
    /\ { a.donor_blood_group : a \in availableOrgans("KIDNEY") } = {"O-", "A+"}
    /\ "B-" \in compatibleRecipients("O-")
    /\ "B-" \notin compatibleRecipients("A+")
    /\ suggestResp.body = { a.organ.id : a \in suggestions(RequestRow(3)) }


(* C16: suggest distinguishes its two outcomes: for a request id that does *)
(* not exist it answers 404 NotFound and returns no list; for an existing  *)
(* request it answers 200, with an empty list when no AVAILABLE donation   *)
(* is compatible, never an error.                                          *)
C16_SuggestOutcomes ==
    \A id \in RequestIdInputs :
      /\ id \notin RequestIds
           => SuggestResponse(id).code = 404 /\ SuggestResponse(id).body = {}
      /\ id \in RequestIds
           => /\ SuggestResponse(id).code = 200
              /\ suggestions(RequestRow(id)) = {} => SuggestResponse(id).body = {}

(* C17: suggest and listAvailable are read-only: a step in which either    *)
(* of them answers leaves every row of users, organs, organ_requests and   *)
(* matches, and every AUTOINCREMENT counter, as it was.                    *)
C17_ReadersReadOnly ==
    [][ (suggestResp' # suggestResp \/ listResp' # listResp)
        => UNCHANGED <<tables, seq>> ]_vars

\* Both readers have answered with rows and the store is still the seed
C17_Witness ==
    /\ suggestResp = [request_id |-> 1, code |-> 200, body |-> {1}]
    /\ listResp = [type |-> undefined, bloodGroup |-> undefined,
                   code |-> 200, body |-> {1, 2}]
    /\ tables = <<SeedUsers, SeedOrgans, SeedRequests, {}>>
    /\ seq.matches = 0


C18_ApprovedHasMatch ==
    \A id \in RequestIds :
      RequestStatus(id) = "APPROVED" => MatchesOfRequest(id) # {}

(* C18: a request becomes APPROVED only through the allocation             *)
(* transaction: in every reachable state every APPROVED request is         *)
(* referenced by a Match row, and a request leaves PENDING either by a     *)
(* successful allocate that names it, to APPROVED, or by the rejection     *)
(* operation, to REJECTED.                                                 *)
C18_ApprovedOnlyByAllocation ==
    /\ []C18_ApprovedHasMatch
    /\ [][ \A id \in RequestIdInputs :
             (RequestStatus(id) = "PENDING" /\ RequestStatus(id)' # "PENDING")
             => \/ /\ RequestStatus(id)' = "APPROVED"
                   /\ Answered /\ Answer.code = 200
                   /\ Answer.body.request_id = id
                \/ /\ RequestStatus(id)' = "REJECTED"
                   /\ ~Answered ]_vars


(* C19: if the allocation transaction aborts after some of its writes      *)
(* (the Match insert, the donation update or the request update throws),   *)
(* everything is rolled back: the caller gets an error, and users, organs, *)
(* organ_requests, matches and the counters are exactly as before the      *)
(* call, so the call leaves no orphan Match and no MATCHED donation.       *)
C19_AbortRollsBack ==
    [][ (Answered /\ Answer.code # 200)
        => /\ Answer.code = 400
           /\ UNCHANGED <<tables, seq>> ]_vars

\* An allocate of organ 1 to request 1 has aborted with 400: no Match row,
\* organ 1 still AVAILABLE, request 1 still PENDING, counter untouched
C19_Witness ==
    /\ Len(allocLog) = 1
    /\ allocLog[1].code = 400
    /\ allocLog[1].body.organ_id = 1 /\ allocLog[1].body.request_id = 1
    /\ matches = {} /\ seq.matches = 0
    /\ OrganStatus(1) = "AVAILABLE"
    /\ RequestStatus(1) = "PENDING"


(* C20: intake rejects unknown enumeration values and never persists them: *)
(* every organ row a step adds has an organ type among the six and a blood *)
(* group among the eight, and every request row a step adds has these and  *)
(* an urgency among the four; a body with another value adds no row.       *)
C20_IntakeRejectsUnknown ==
    [][ /\ \A o \in organs' :
             o.id \notin OrganIds
             => o.organ_type \in OrganTypes /\ o.blood_group \in BloodGroups
        /\ \A r \in organ_requests' :
             r.id \notin RequestIds
             => /\ r.organ_type \in OrganTypes
                /\ r.blood_group \in BloodGroups
                /\ r.urgency_level \in UrgencyLevels ]_vars


(* C21: every donation created by organ registration starts AVAILABLE and  *)
(* every request created by request submission starts PENDING, whatever    *)
(* fields the caller sends; the step that creates one leaves every         *)
(* existing donation and request and every match as it was.                *)
C21_IntakeStartsFresh ==
    [][ /\ (\E o \in organs' : o.id \notin OrganIds)
           => /\ \A o \in organs' :
                   o.id \notin OrganIds => o.availability_status = "AVAILABLE"
              /\ organs \subseteq organs'
              /\ UNCHANGED <<organ_requests, matches>>
        /\ (\E r \in organ_requests' : r.id \notin RequestIds)
           => /\ \A r \in organ_requests' :
                   r.id \notin RequestIds => r.status = "PENDING"
              /\ organ_requests \subseteq organ_requests'
              /\ UNCHANGED <<organs, matches>> ]_vars

\* A heart posted with availability_status MATCHED is stored AVAILABLE and
\* a request posted with status APPROVED is stored PENDING
C21_Witness ==
    /\ 3 \in OrganIds /\ OrganRow(3).organ_type = "HEART"
    /\ OrganStatus(3) = "AVAILABLE"
    /\ 3 \in RequestIds /\ RequestRow(3).organ_type = "HEART"
    /\ RequestStatus(3) = "PENDING" /\ RequestNote(3) = NULL


MatchIds == { m.id : m \in matches }

(* C22: a Match row is immutable: a row appears only in a step in which    *)
(* allocate answers success, with the fields of that call and status       *)
(* COMPLETED, and a row that still exists after a step is the row it was.  *)
C22_MatchImmutable ==
    [][ /\ \A m \in matches :
             (\E n \in matches' : n.id = m.id) => m \in matches'
        /\ \A n \in matches' :
             n.id \notin MatchIds
             => /\ Answered /\ Answer.code = 200
                /\ n.donor_id = Answer.body.donor_id
                /\ n.recipient_id = Answer.body.recipient_id
                /\ n.organ_id = Answer.body.organ_id
                /\ n.request_id = Answer.body.request_id
                /\ n.organ_type = Answer.body.organ_type
                /\ n.status = "COMPLETED" ]_vars

\* Two matches were made, donor 3 was removed with the match that names
\* them, and the other match is still the row allocate inserted
C22_Witness ==
    /\ Len(allocLog) = 2
    /\ 3 \notin { u.id : u \in users }
    /\ matches = { [id |-> 2, donor_id |-> 4, recipient_id |-> 6, organ_id |-> 2,
                    request_id |-> 2, organ_type |-> "LIVER",
                    status |-> "COMPLETED"] }


\* The donations a query of GET /organs asks for
C23_Asked(type, bloodGroup) ==
    { o.id : o \in { p \in organs :
                       /\ p.availability_status = "AVAILABLE"
                       /\ (type # undefined => p.organ_type = type)
                       /\ (bloodGroup # undefined => p.blood_group = bloodGroup) } }

(* C23: listAvailable(organType?, bloodGroup?) succeeds and returns        *)
(* exactly the donations that are AVAILABLE and match each filter that is  *)
(* given, all AVAILABLE donations when none is given; it never returns a   *)
(* MATCHED donation.                                                       *)
C23_ListAvailableExact ==
    \A type \in TypeFilters, bloodGroup \in GroupFilters :
      /\ ListResponse(type, bloodGroup).code = 200
      /\ ListResponse(type, bloodGroup).body = C23_Asked(type, bloodGroup)
      /\ \A id \in ListResponse(type, bloodGroup).body : OrganStatus(id) # "MATCHED"


\* The donor of the organ has a blood group that is no key of the table
C24_UnknownDonor(o) ==
    \E u \in users : u.id = o.donor_id /\ u.blood_group \notin BloodGroups

(* C24: a donor whose blood group is not one of the eight table keys       *)
(* (unknown or missing) is compatible with no recipient: for every         *)
(* existing request suggest succeeds and returns none of that donor's      *)
(* donations.                                                              *)
C24_UnknownGroupExcluded ==
    \A id \in RequestIds :
      /\ SuggestResponse(id).code = 200
      /\ \A o \in organs :
           C24_UnknownDonor(o) => o.id \notin SuggestResponse(id).body


(* C25: in every reachable state each request's status is one of PENDING,  *)
(* APPROVED, REJECTED and each donation's status is one of AVAILABLE,      *)
(* MATCHED; no operation, the admin status update with a status of the     *)
(* caller's choice included, stores another value.                         *)
C25_StatusesEnumerated ==
    /\ \A r \in organ_requests : r.status \in {"PENDING", "APPROVED", "REJECTED"}
    /\ \A o \in organs : o.availability_status \in {"AVAILABLE", "MATCHED"}


(* C26: after allocate(d, r) is answered with success, request r carries   *)
(* the note 'Matched with compatible donor' and the Match row the call     *)
(* inserted has status COMPLETED; the call changes no donation other than  *)
(* d and no request other than r.                                          *)
C26_AllocateNoteAndFrame ==
    [][ \A d \in OrganIdInputs, r \in RequestIdInputs :
          (/\ Answered
           /\ Answer.code = 200
           /\ Answer.body.organ_id = d
           /\ Answer.body.request_id = r)
          =>
          /\ RequestNote(r)' = "Matched with compatible donor"
          /\ \E m \in matches' :
               /\ m \notin matches
               /\ m.organ_id = d /\ m.request_id = r
               /\ m.status = "COMPLETED"
          /\ \A o \in organs : o.id # d => o \in organs'
          /\ \A o \in organs' : o.id # d => o \in organs
          /\ \A q \in organ_requests : q.id # r => q \in organ_requests'
          /\ \A q \in organ_requests' : q.id # r => q \in organ_requests ]_vars


(* C27: the denormalized fields of every Match row agree with the rows it  *)
(* references: its donor id is the owner of the referenced donation, its   *)
(* recipient id is the owner of the referenced request, and its organ type *)
(* is the organ type of both the donation and the request.                 *)
C27_MatchFieldsAgree ==
    \A m \in matches :
      /\ \A o \in organs :
           o.id = m.organ_id
           => m.donor_id = o.donor_id /\ m.organ_type = o.organ_type
      /\ \A r \in organ_requests :
           r.id = m.request_id
           => m.recipient_id = r.recipient_id /\ m.organ_type = r.organ_type


\* The allocation records are consistent: every Match row references rows
\* that exist, every MATCHED donation and every APPROVED request is
\* referenced by a Match row
C28_Consistent ==
    /\ \A m \in matches : m.organ_id \in OrganIds /\ m.request_id \in RequestIds
    /\ \A o \in organs :
         o.availability_status = "MATCHED" => MatchesOfOrgan(o.id) # {}
    /\ \A r \in organ_requests :
         r.status = "APPROVED" => MatchesOfRequest(r.id) # {}

(* C28: user removal keeps the allocation records consistent: a step that  *)
(* deletes a user from a consistent store leaves no Match row that         *)
(* references a missing donation or request, no MATCHED donation without a *)
(* Match row and no APPROVED request without a Match row.                  *)
C28_RemovalKeepsConsistent ==
    [][ (users' # users /\ { u.id : u \in users' } \subseteq { u.id : u \in users }
         /\ C28_Consistent)
        => C28_Consistent' ]_vars


\* The handles the callers have received so far
C29_Handles == { boot.callers[c] : c \in Callers } \ {"idle", "awaiting"}

(* C29: database initialization happens at most once under concurrency:    *)
(* for every interleaving of the callers of initDb the body runs once, all *)
(* callers receive the same handle, which is the one in db, at most one    *)
(* admin user exists, and the promise is never rejected: on failure it is  *)
(* fulfilled with the mock store.                                          *)
C29_InitOnce ==
    /\ boot.runs <= 1
    /\ Cardinality(C29_Handles) <= 1
    /\ C29_Handles \subseteq {boot.db}
    /\ boot.created <= 1
    /\ Cardinality({ u \in users : u.role = "ADMIN" }) <= 1
    /\ boot.dbPromise \in {"null", "pending", "fulfilled"}
    /\ boot.dbPromise = "fulfilled" => boot.value \in {"sqlite", "mock"}
    /\ boot.body = "done" => boot.dbPromise = "fulfilled" /\ boot.db = boot.value

\* All callers entered initDb while one body was running, the body
\* created the admin, and all resumed with the SQLite handle
C29_Witness ==
    /\ boot.runs = 1
    /\ \A c \in Callers : boot.callers[c] = "sqlite"
    /\ boot.created = 1
    /\ users = {AdminRow}


\* checkAuth ends in this step without a token or with its token rejected
C30_CheckAuthEndsSignedOut ==
    /\ session.checkAuth \in {"start", "me"}
    /\ session'.checkAuth \in {"noToken", "rejected"}

\* handleLogout runs in this step
C30_LogsOut ==
    /\ session.user # "null" /\ session'.user = "null"
    /\ session'.checkAuth = session.checkAuth

\* The stored view as App reads it: localStorage.getItem('view') || 'landing'
C30_StoredView ==
    IF session.savedView = "null" THEN "landing" ELSE session.savedView

C30_Steps ==
    /\ C30_CheckAuthEndsSignedOut
         => /\ session'.user = "null"
            /\ session'.token = "none"
            /\ C30_StoredView' \in {"landing", "auth"}
    /\ C30_LogsOut
         => /\ session'.token = "none"
            /\ session'.user = "null"
            /\ session'.view = "landing" /\ session'.savedView = "landing"

\* The statement without the loading screen
C30_RenderedSignedOutAlways ==
    session.user = "null" => Rendered \in {"landing", "auth"}

C30_RenderedSignedOut ==
    (~session.loading /\ session.user = "null") => Rendered \in {"landing", "auth"}

\* C30 as stated: whenever no user is authenticated the rendered page is
\* the landing or auth page, in every state
C30_AsStated ==
    /\ []C30_RenderedSignedOutAlways
    /\ [][C30_Steps]_vars

(* C30: client session state machine: once checkAuth has finished,         *)
(* whenever no user is authenticated the rendered page is the landing or   *)
(* auth page whatever the view is; when checkAuth finishes with no token   *)
(* or a rejected token the user is null, the token is absent and the       *)
(* stored view is 'landing' or 'auth'; after logout the token is removed,  *)
(* the user is null and the view is 'landing'.                             *)
C30_SessionMachine ==
    /\ []C30_RenderedSignedOut
    /\ [][C30_Steps]_vars

\* checkAuth has finished without a token while App still holds the view
\* 'dashboard' it was loaded with: the landing page is shown
C30_Witness ==
    /\ session.checkAuth = "noToken" /\ ~session.loading
    /\ session.token = "none" /\ session.user = "null"
    /\ session.view = "dashboard" /\ session.savedView = "landing"
    /\ Rendered = "landing"

=============================================================================
